---------------------------- MODULE Spec2Model ----------------------------
(***************************************************************************)
(* A model of two parts of the LiveKit Rust SDKs:                          *)
(*                                                                         *)
(*   - livekit-ffi/src/server/video_stream.rs: FfiVideoStream::setup and   *)
(*     the producer task native_video_stream_task, together with the FFI   *)
(*     server's handle registry and event sink they call;                  *)
(*   - livekit/src/room/e2ee/manager.rs: E2eeManager.                      *)
(*                                                                         *)
(* The two parts share no state.  StreamSpec runs the video stream bridge, *)
(* E2eeSpec runs the manager.                                              *)
(***************************************************************************)
EXTENDS Integers, Sequences, FiniteSets, TLC

\* ------------------------------------------------------------------ bounds

\* Number of setup calls the foreign caller makes in StreamSpec.
MaxSetups == 2

\* Number of setup calls the foreign caller makes in SingleStreamSpec.
MaxStreams == 1

\* Number of frames the native sources emit, all streams together.
MaxFrames == 2

\* ------------------------------------------------------- handles and kinds

\* The registry holds one video track and one audio track before any stream
\* is set up; they were stored under the first two ids.
VideoTrackHandle == 1
AudioTrackHandle == 2
NumTracks == 2

\* Every id next_id can return within the bounds: each setup request takes at
\* most one, each frame one.
MaxId == NumTracks + MaxSetups + MaxFrames
Handles == 1..MaxId

\* track_handle values a request may carry: the two tracks, and the first
\* id after them, which is absent from the registry, or was drawn by an
\* earlier setup call and holds a stream (no track) once that call stored it.
RequestHandles == 1..(NumTracks + 1)

\* proto::VideoStreamType
VideoStreamTypes == {"VideoStreamNative", "VideoStreamWebgl", "VideoStreamHtml"}

VARIABLES
    next_handle,   \* FfiServer: the id the next next_id() call returns
    issued,        \* every id next_id() has returned, in order
    ffi_handles,   \* FfiServer registry: handle -> kind of the value stored
    ever_stored,   \* handles store_handle was ever called with
    dup_store,     \* store_handle was called with a handle that is or was stored
    setup_calls,   \* setup calls that have not returned: request and result
    n_setups,      \* number of setup calls made
    rejected,      \* ids drawn by setup calls that returned an error
    pc,            \* per stream handle: position of its producer task
    close_tx,      \* per stream handle: the oneshot sender is alive
    frame,         \* per stream handle: the frame the task is handling
    sending,       \* per stream handle: send_event calls not yet returned
    events,        \* per stream handle: events submitted to send_event
    queue,         \* per stream handle: frames the source holds, oldest first
    ended,         \* per stream handle: the source was closed
    emitted,       \* frames emitted by all sources
    late_release   \* stream handles released after their task had ended

streamVars == <<next_handle, issued, ffi_handles, ever_stored, dup_store,
                setup_calls, n_setups, rejected, pc, close_tx, frame, sending,
                events, queue, ended, emitted, late_release>>

\* --------------------------------------------------- E2eeManager (state)

\* Number of acquisition notifications the room delivers.
MaxCalls == 2

ParticipantIdentities == {"alice", "bob"}
TrackSids == {"TR_1"}

\* Keys of ManagerInner.frame_cryptors.
CryptorKeys == ParticipantIdentities \X TrackSids

\* EncryptionType of a publication; Custom is handled as Gcm is.
EncryptionTypes == {"None", "Gcm"}

VARIABLES
    options,         \* ManagerInner.options is Some
    enabled,         \* ManagerInner.enabled
    frame_cryptors,  \* ManagerInner.frame_cryptors: key -> FrameCryptor, 0: no entry
    cryptors,        \* every FrameCryptor created, in order: key, enabled state
    calls,           \* acquisition calls that have not returned
    n_calls,         \* number of acquisition calls made
    state_changed,   \* E2eeManager.state_changed: the handler, 0: None
    last_observer,   \* the handler the last on_state_changed call was given
    global_flag,     \* the value the last set_enabled call was given
    op,              \* the last step a call on the manager took
    overtaken        \* ids of the acquisition calls that had passed their
                     \* checks when a cleanup, or a release of their key, ran

\* Handlers the room registers with on_state_changed.
Observers == {1, 2}

\* The key of a step that has none.
NoKey == <<"", "">>

\* A step of a call on the manager: its name, the key, the flag and the
\* FrameCryptor it was about, the FrameCryptors it called set_enabled on,
\* whether it was given the flag of the set_enabled call just before it,
\* whether it was given a flag other than the one in effect, and for a
\* notification the handler it was passed to and the identity passed along.
Op(name, key, v, cryptor, touched, repeat, changed, to, identity) ==
    [name |-> name, key |-> key, v |-> v, cryptor |-> cryptor,
     touched |-> touched, repeat |-> repeat,
     changed |-> changed, to |-> to, identity |-> identity]

\* A step that only has a name and a key.
KeyOp(name, key) ==
    Op(name, key, FALSE, 0, {}, FALSE, FALSE, 0, "")

e2eeVars == <<options, enabled, frame_cryptors, cryptors, calls, n_calls,
              state_changed, last_observer, global_flag, op, overtaken>>

vars == <<streamVars, e2eeVars>>

NoFrame == [seq |-> 0, handle_id |-> 0]

\* ------------------------------------------------------------- FfiServer

\* server.retrieve_handle::<FfiTrack>(h): what the lookup finds.
Lookup(h) == IF h \in Handles THEN ffi_handles[h] ELSE "absent"

IsTrack(kind) == kind \in {"video_track", "audio_track"}

\* server.retrieve_handle::<FfiTrack>(h) as a result.
RetrieveTrack(h) ==
    IF Lookup(h) = "absent" THEN "InvalidHandle"
    ELSE IF ~IsTrack(Lookup(h)) THEN "TypeMismatch"
    ELSE "Ok"

\* server.next_id(): returns the counter and advances it.
NextId(h) ==
    /\ h = next_handle
    /\ next_handle' = next_handle + 1
    /\ issued' = Append(issued, h)

\* server.store_handle(h, value of this kind).
StoreHandle(h, kind) ==
    /\ ffi_handles' = [ffi_handles EXCEPT ![h] = kind]
    /\ ever_stored' = ever_stored \cup {h}
    /\ dup_store' = (dup_store \/ h \in ever_stored)

StreamInit ==
    /\ next_handle = NumTracks + 1
    /\ issued = <<VideoTrackHandle, AudioTrackHandle>>
    /\ ffi_handles = [h \in Handles |->
                        IF h = VideoTrackHandle THEN "video_track"
                        ELSE IF h = AudioTrackHandle THEN "audio_track"
                        ELSE "absent"]
    /\ ever_stored = {VideoTrackHandle, AudioTrackHandle}
    /\ dup_store = FALSE
    /\ setup_calls = {}
    /\ n_setups = 0
    /\ rejected = {}
    /\ pc = [h \in Handles |-> "none"]
    /\ close_tx = [h \in Handles |-> FALSE]
    /\ frame = [h \in Handles |-> NoFrame]
    /\ sending = [h \in Handles |-> 0]
    /\ events = [h \in Handles |-> <<>>]
    /\ queue = [h \in Handles |-> <<>>]
    /\ ended = [h \in Handles |-> FALSE]
    /\ emitted = 0
    /\ late_release = {}
    \* the manager takes no step in StreamSpec: it stays as constructed
    \* with no options
    /\ options = FALSE
    /\ enabled = FALSE
    /\ frame_cryptors = [k \in CryptorKeys |-> 0]
    /\ cryptors = <<>>
    /\ calls = {}
    /\ n_calls = 0
    /\ state_changed = 0
    /\ last_observer = 0
    /\ global_flag = options
    /\ op = KeyOp("new", NoKey)
    /\ overtaken = {}


\* ------------------------------------------------- FfiVideoStream::setup

\* The call's record: the request, what retrieve_handle found, the result
\* the call returns ("Pending": Ok once the stream is stored) and the id it
\* drew (0: none).
SetupRecord(track, type, result, h) ==
    [track_handle |-> track, type |-> type, found |-> Lookup(track),
     result |-> result, handle_id |-> h]

\* server.async_runtime.spawn(Self::native_video_stream_task(..)): the task
\* of stream h starts at the top of its loop, holding close_rx; setup still
\* holds close_tx in video_stream.
SpawnTask(h) ==
    /\ pc' = [pc EXCEPT ![h] = "select"]
    /\ close_tx' = [close_tx EXCEPT ![h] = TRUE]

\* SetupCall with the task spawned before the match on stream_type: a
\* request of an unsupported type starts a task and then returns its error.
SetupCall_SpawnFirst(track, type) ==
    /\ n_setups' = n_setups + 1
    /\ IF RetrieveTrack(track) # "Ok"
       THEN /\ setup_calls' = setup_calls \cup
                   {SetupRecord(track, type, RetrieveTrack(track), 0)}
            /\ UNCHANGED <<next_handle, issued, pc, close_tx, rejected>>
       ELSE IF Lookup(track) # "video_track"
       THEN /\ setup_calls' = setup_calls \cup
                   {SetupRecord(track, type, "InvalidRequest", 0)}
            /\ UNCHANGED <<next_handle, issued, pc, close_tx, rejected>>
       ELSE \E h \in Handles :
            /\ NextId(h)
            /\ SpawnTask(h)
            /\ IF type = "VideoStreamNative"
               THEN /\ setup_calls' = setup_calls \cup
                           {SetupRecord(track, type, "Pending", h)}
                    /\ UNCHANGED rejected
               ELSE /\ setup_calls' = setup_calls \cup
                           {SetupRecord(track, type, "InvalidRequest", h)}
                    /\ rejected' = rejected \cup {h}
    /\ UNCHANGED <<ffi_handles, ever_stored, dup_store, frame, sending,
                   events, queue, ended, emitted>>
    /\ UNCHANGED <<late_release, e2eeVars>>

\* Lines 46-77: the call up to the end of the match on stream_type.
SetupCall(track, type) ==
    /\ n_setups' = n_setups + 1
    /\ IF RetrieveTrack(track) # "Ok"
       THEN \* line 46: the ? returns the retrieval error
            /\ setup_calls' = setup_calls \cup
                   {SetupRecord(track, type, RetrieveTrack(track), 0)}
            /\ UNCHANGED <<next_handle, issued, pc, close_tx, rejected>>
       ELSE IF Lookup(track) # "video_track"
       THEN \* lines 49-51
            /\ setup_calls' = setup_calls \cup
                   {SetupRecord(track, type, "InvalidRequest", 0)}
            /\ UNCHANGED <<next_handle, issued, pc, close_tx, rejected>>
       ELSE \E h \in Handles :
            /\ NextId(h)
            /\ IF type = "VideoStreamNative"
               THEN \* lines 58-71
                    /\ SpawnTask(h)
                    /\ setup_calls' = setup_calls \cup
                           {SetupRecord(track, type, "Pending", h)}
                    /\ UNCHANGED rejected
               ELSE \* lines 72-76: close_tx and close_rx are dropped here
                    /\ setup_calls' = setup_calls \cup
                           {SetupRecord(track, type, "InvalidRequest", h)}
                    /\ rejected' = rejected \cup {h}
                    /\ UNCHANGED <<pc, close_tx>>
    /\ UNCHANGED <<ffi_handles, ever_stored, dup_store, frame, sending,
                   events, queue, ended, emitted>>
    /\ UNCHANGED <<late_release, e2eeVars>>

\* Lines 80-86: store the stream under its handle and return Ok.
SetupStore(c) ==
    /\ c \in setup_calls
    /\ c.result = "Pending"
    /\ StoreHandle(c.handle_id, "stream")
    /\ setup_calls' = setup_calls \ {c}
    /\ UNCHANGED <<next_handle, issued, n_setups, rejected, pc, close_tx,
                   frame, sending, events, queue, ended, emitted>>
    /\ UNCHANGED <<late_release, e2eeVars>>

\* Lines 46, 50, 73: the call returns its Err to the caller.
SetupFail(c) ==
    /\ c \in setup_calls
    /\ c.result # "Pending"
    /\ setup_calls' = setup_calls \ {c}
    /\ UNCHANGED <<next_handle, issued, ffi_handles, ever_stored, dup_store,
                   n_setups, rejected, pc, close_tx, frame, sending, events,
                   queue, ended, emitted>>
    /\ UNCHANGED <<late_release, e2eeVars>>

\* ------------------------------------------------------ NativeVideoStream

\* The native source of a running stream receives a frame from the track.
SourceEmit(h) ==
    /\ pc[h] \notin {"none", "done"}
    /\ ~ended[h]
    /\ emitted < MaxFrames
    /\ emitted' = emitted + 1
    /\ queue' = [queue EXCEPT ![h] = Append(@, emitted + 1)]
    /\ UNCHANGED <<next_handle, issued, ffi_handles, ever_stored, dup_store,
                   setup_calls, n_setups, rejected, pc, close_tx, frame, sending, events, ended>>
    /\ UNCHANGED <<late_release, e2eeVars>>

\* The native source is closed: next() yields what is queued, then None.
SourceEnd(h) ==
    /\ pc[h] \notin {"none", "done"}
    /\ ~ended[h]
    /\ ended' = [ended EXCEPT ![h] = TRUE]
    /\ UNCHANGED <<next_handle, issued, ffi_handles, ever_stored, dup_store,
                   setup_calls, n_setups, rejected, pc, close_tx, frame, sending, events, queue,
                   emitted>>
    /\ UNCHANGED <<late_release, e2eeVars>>

\* native_stream.next() is ready with Some(frame).
FrameReady(h) == queue[h] # <<>>

\* native_stream.next() is ready with None.
SourceExhausted(h) == queue[h] = <<>> /\ ended[h]

\* &mut close_rx is ready: the sender was dropped (nothing is ever sent on it).
CloseReady(h) == ~close_tx[h]

\* ------------------------- FfiVideoStream::native_video_stream_task

FrameEvent(f, ok) ==
    [kind |-> "frame", seq |-> f.seq, handle_id |-> f.handle_id, ok |-> ok]

EosEvent(ok) == [kind |-> "eos", seq |-> 0, handle_id |-> 0, ok |-> ok]

\* TaskFrame with the send spawned as a task of its own instead of awaited:
\* the loop goes on to the next select while the send is in flight.
TaskFrame_Detached(h) ==
    /\ pc[h] = "select"
    /\ FrameReady(h)
    /\ \E id \in Handles :
        /\ NextId(id)
        /\ StoreHandle(id, "buffer")
        /\ frame' = [frame EXCEPT ![h] = [seq |-> Head(queue[h]),
                                          handle_id |-> id]]
    /\ queue' = [queue EXCEPT ![h] = Tail(@)]
    /\ sending' = [sending EXCEPT ![h] = @ + 1]
    /\ UNCHANGED <<pc, setup_calls, n_setups, rejected, close_tx, events,
                   ended, emitted>>
    /\ UNCHANGED <<late_release, e2eeVars>>

\* TaskFrame with the buffer stored under stream_handle instead of the id
\* drawn for it.
TaskFrame_StreamHandle(h) ==
    /\ pc[h] = "select"
    /\ FrameReady(h)
    /\ \E id \in Handles :
        /\ NextId(id)
        /\ StoreHandle(h, "buffer")
        /\ frame' = [frame EXCEPT ![h] = [seq |-> Head(queue[h]),
                                          handle_id |-> id]]
    /\ queue' = [queue EXCEPT ![h] = Tail(@)]
    /\ sending' = [sending EXCEPT ![h] = @ + 1]
    /\ pc' = [pc EXCEPT ![h] = "send"]
    /\ UNCHANGED <<setup_calls, n_setups, rejected, close_tx, events, ended,
                   emitted>>
    /\ UNCHANGED <<late_release, e2eeVars>>

\* Lines 100-110: select! takes the frame branch with Some(frame); the task
\* draws the id of the frame's buffer, stores the buffer under it and calls
\* send_event.
TaskFrame(h) ==
    /\ pc[h] = "select"
    /\ FrameReady(h)
    /\ \E id \in Handles :
        /\ NextId(id)
        /\ StoreHandle(id, "buffer")
        /\ frame' = [frame EXCEPT ![h] = [seq |-> Head(queue[h]),
                                          handle_id |-> id]]
    /\ queue' = [queue EXCEPT ![h] = Tail(@)]
    /\ sending' = [sending EXCEPT ![h] = @ + 1]
    /\ pc' = [pc EXCEPT ![h] = "send"]
    /\ UNCHANGED <<setup_calls, n_setups, rejected, close_tx, events, ended,
                   emitted>>
    /\ UNCHANGED <<late_release, e2eeVars>>

\* TaskSendFrame with the error propagated instead of logged: a failed send
\* ends the task at once.
TaskSendFrame_Fatal(h, ok) ==
    /\ pc[h] = "send"
    /\ events' = [events EXCEPT ![h] = Append(@, FrameEvent(frame[h], ok))]
    /\ sending' = [sending EXCEPT ![h] = @ - 1]
    /\ frame' = [frame EXCEPT ![h] = NoFrame]
    /\ pc' = [pc EXCEPT ![h] = IF ok THEN "select" ELSE "done"]
    /\ UNCHANGED <<next_handle, issued, ffi_handles, ever_stored, dup_store,
                   setup_calls, n_setups, rejected, close_tx, queue, ended,
                   emitted>>
    /\ UNCHANGED <<late_release, e2eeVars>>

\* Lines 110-128: send_event returns, Ok or Err; an Err is logged; either
\* way the loop goes on.
TaskSendFrame(h, ok) ==
    /\ pc[h] = "send"
    /\ events' = [events EXCEPT ![h] = Append(@, FrameEvent(frame[h], ok))]
    /\ sending' = [sending EXCEPT ![h] = @ - 1]
    /\ frame' = [frame EXCEPT ![h] = NoFrame]
    /\ pc' = [pc EXCEPT ![h] = "select"]
    /\ UNCHANGED <<next_handle, issued, ffi_handles, ever_stored, dup_store,
                   setup_calls, n_setups, rejected, close_tx, queue, ended, emitted>>
    /\ UNCHANGED <<late_release, e2eeVars>>

\* TaskClose with the close branch missing from the select.
TaskClose_Never(h) ==
    /\ FALSE
    /\ UNCHANGED vars

\* TaskClose with close_rx polled again after the Eos was sent.
TaskClose_AfterEos(h) ==
    /\ pc[h] \in {"select", "done"}
    /\ CloseReady(h)
    /\ sending' = [sending EXCEPT ![h] = @ + 1]
    /\ pc' = [pc EXCEPT ![h] = "eos"]
    /\ UNCHANGED <<next_handle, issued, ffi_handles, ever_stored, dup_store,
                   setup_calls, n_setups, rejected, close_tx, frame, events,
                   queue, ended, emitted>>
    /\ UNCHANGED <<late_release, e2eeVars>>

\* Lines 97-99, 132: select! takes the close branch; the loop is left and
\* send_event is called with the Eos message.
TaskClose(h) ==
    /\ pc[h] = "select"
    /\ CloseReady(h)
    /\ sending' = [sending EXCEPT ![h] = @ + 1]
    /\ pc' = [pc EXCEPT ![h] = "eos"]
    /\ UNCHANGED <<next_handle, issued, ffi_handles, ever_stored, dup_store,
                   setup_calls, n_setups, rejected, close_tx, frame, events, queue, ended, emitted>>
    /\ UNCHANGED <<late_release, e2eeVars>>

\* Lines 100-103, 132: select! takes the frame branch with None.
TaskExhausted(h) ==
    /\ pc[h] = "select"
    /\ SourceExhausted(h)
    /\ sending' = [sending EXCEPT ![h] = @ + 1]
    /\ pc' = [pc EXCEPT ![h] = "eos"]
    /\ UNCHANGED <<next_handle, issued, ffi_handles, ever_stored, dup_store,
                   setup_calls, n_setups, rejected, close_tx, frame, events, queue, ended, emitted>>
    /\ UNCHANGED <<late_release, e2eeVars>>

\* TaskSendEos with the Eos message sent in the close branch as well as
\* after the loop.
TaskSendEos_Twice(h, ok) ==
    /\ pc[h] = "eos"
    /\ events' = [events EXCEPT
                    ![h] = Append(Append(@, EosEvent(ok)), EosEvent(ok))]
    /\ sending' = [sending EXCEPT ![h] = @ - 1]
    /\ pc' = [pc EXCEPT ![h] = "done"]
    /\ queue' = [queue EXCEPT ![h] = <<>>]
    /\ ended' = [ended EXCEPT ![h] = TRUE]
    /\ UNCHANGED <<next_handle, issued, ffi_handles, ever_stored, dup_store,
                   setup_calls, n_setups, rejected, close_tx, frame, emitted>>
    /\ UNCHANGED <<late_release, e2eeVars>>

\* Lines 132-145: the Eos send returns, Ok or Err; an Err is logged; the
\* task ends, and native_stream and close_rx are dropped with it.
TaskSendEos(h, ok) ==
    /\ pc[h] = "eos"
    /\ events' = [events EXCEPT ![h] = Append(@, EosEvent(ok))]
    /\ sending' = [sending EXCEPT ![h] = @ - 1]
    /\ pc' = [pc EXCEPT ![h] = "done"]
    /\ queue' = [queue EXCEPT ![h] = <<>>]
    /\ ended' = [ended EXCEPT ![h] = TRUE]
    /\ UNCHANGED <<next_handle, issued, ffi_handles, ever_stored, dup_store,
                   setup_calls, n_setups, rejected, close_tx, frame, emitted>>
    /\ UNCHANGED <<late_release, e2eeVars>>

\* ------------------------------------------------- the foreign caller

\* Stream handles the caller was given: those of the setup calls that
\* returned Ok.
ReturnedStreams ==
    {h \in Handles : pc[h] # "none" /\ h \in ever_stored}

\* FfiServer's handling of a dispose request for a stream handle: the
\* FfiVideoStream stored under h is removed and dropped.  Dropping it drops
\* its close_tx (lines 23-29), which makes the task's close_rx ready; when
\* the task has ended and dropped close_rx, dropping close_tx does nothing
\* more.
Release(h) ==
    /\ h \in ReturnedStreams
    /\ ffi_handles[h] = "stream"
    /\ ffi_handles' = [ffi_handles EXCEPT ![h] = "absent"]
    /\ close_tx' = [close_tx EXCEPT ![h] = FALSE]
    /\ late_release' = IF pc[h] = "done" THEN late_release \cup {h}
                       ELSE late_release
    /\ UNCHANGED <<next_handle, issued, ever_stored, dup_store, setup_calls,
                   n_setups, rejected, pc, frame, sending, events, queue,
                   ended, emitted>>
    /\ UNCHANGED e2eeVars

\* ------------------------------------------------------------ E2eeManager

\* E2eeManager::new(options), the video stream bridge idle.
E2eeInit ==
    /\ options \in BOOLEAN
    /\ enabled = options
    /\ frame_cryptors = [k \in CryptorKeys |-> 0]
    /\ cryptors = <<>>
    /\ calls = {}
    /\ n_calls = 0
    /\ state_changed = 0
    /\ last_observer = 0
    /\ global_flag = options
    /\ op = KeyOp("new", NoKey)
    /\ overtaken = {}
    /\ next_handle = NumTracks + 1
    /\ issued = <<VideoTrackHandle, AudioTrackHandle>>
    /\ ffi_handles = [h \in Handles |->
                        IF h = VideoTrackHandle THEN "video_track"
                        ELSE IF h = AudioTrackHandle THEN "audio_track"
                        ELSE "absent"]
    /\ ever_stored = {VideoTrackHandle, AudioTrackHandle}
    /\ dup_store = FALSE
    /\ setup_calls = {}
    /\ n_setups = 0
    /\ rejected = {}
    /\ pc = [h \in Handles |-> "none"]
    /\ close_tx = [h \in Handles |-> FALSE]
    /\ frame = [h \in Handles |-> NoFrame]
    /\ sending = [h \in Handles |-> 0]
    /\ events = [h \in Handles |-> <<>>]
    /\ queue = [h \in Handles |-> <<>>]
    /\ ended = [h \in Handles |-> FALSE]
    /\ emitted = 0
    /\ late_release = {}

\* initialized()
Initialized == options

\* enabled(): inner.enabled && initialized()
E2eeEnabled == enabled /\ Initialized

\* The room calls on_track_subscribed(track, publication, participant).
OnTrackSubscribed(key, enc) ==
    /\ n_calls' = n_calls + 1
    /\ calls' = calls \cup {[id |-> n_calls + 1, kind |-> "receiver",
                             key |-> key, enc |-> enc, at |-> "start",
                             cryptor |-> 0]}
    /\ op' = KeyOp("on_track_subscribed", key)
    /\ UNCHANGED <<options, enabled, frame_cryptors, cryptors>>
    /\ UNCHANGED <<state_changed, last_observer, global_flag>>
    /\ UNCHANGED overtaken
    /\ UNCHANGED streamVars

\* The room calls on_local_track_published(track, publication, participant).
OnLocalTrackPublished(key, enc) ==
    /\ n_calls' = n_calls + 1
    /\ calls' = calls \cup {[id |-> n_calls + 1, kind |-> "sender",
                             key |-> key, enc |-> enc, at |-> "start",
                             cryptor |-> 0]}
    /\ op' = KeyOp("on_local_track_published", key)
    /\ UNCHANGED <<options, enabled, frame_cryptors, cryptors>>
    /\ UNCHANGED <<state_changed, last_observer, global_flag>>
    /\ UNCHANGED overtaken
    /\ UNCHANGED streamVars

\* AcquireCheck without the test of the publication's encryption type.
AcquireCheck_NoEncryptionTest(c) ==
    /\ c \in calls
    /\ c.at = "start"
    /\ IF ~Initialized
       THEN calls' = calls \ {c}
       ELSE calls' = (calls \ {c}) \cup {[c EXCEPT !.at = "create"]}
    /\ op' = KeyOp("check", c.key)
    /\ UNCHANGED <<options, enabled, frame_cryptors, cryptors, n_calls>>
    /\ UNCHANGED <<state_changed, last_observer, global_flag>>
    /\ UNCHANGED overtaken
    /\ UNCHANGED streamVars

\* Lines 83-89 and 109-115: the call returns when the manager is not
\* initialized or the publication is not encrypted.
AcquireCheck(c) ==
    /\ c \in calls
    /\ c.at = "start"
    /\ IF ~Initialized \/ c.enc = "None"
       THEN calls' = calls \ {c}
       ELSE calls' = (calls \ {c}) \cup {[c EXCEPT !.at = "create"]}
    /\ op' = KeyOp("check", c.key)
    /\ UNCHANGED <<options, enabled, frame_cryptors, cryptors, n_calls>>
    /\ UNCHANGED <<state_changed, last_observer, global_flag>>
    /\ UNCHANGED overtaken
    /\ UNCHANGED streamVars

\* Lines 93-94, 119-120: setup_rtp_receiver or setup_rtp_sender creates the
\* FrameCryptor under the lock and sets it to inner.enabled; setup_cryptor
\* registers the state change handler on it.
AcquireCreate(c) ==
    /\ c \in calls
    /\ c.at = "create"
    /\ cryptors' = Append(cryptors, [key |-> c.key, enabled |-> enabled])
    /\ calls' = (calls \ {c}) \cup
                   {[c EXCEPT !.at = "insert", !.cryptor = Len(cryptors) + 1]}
    /\ op' = Op("create", c.key, enabled, Len(cryptors) + 1,
                {Len(cryptors) + 1}, FALSE, FALSE, 0, "")
    /\ UNCHANGED <<options, enabled, frame_cryptors, n_calls>>
    /\ UNCHANGED <<state_changed, last_observer, global_flag>>
    /\ UNCHANGED overtaken
    /\ UNCHANGED streamVars

\* Lines 96-99, 122-125: the FrameCryptor is inserted under the key, in
\* place of the one that was there; the call returns.
AcquireInsert(c) ==
    /\ c \in calls
    /\ c.at = "insert"
    /\ frame_cryptors' = [frame_cryptors EXCEPT ![c.key] = c.cryptor]
    /\ calls' = calls \ {c}
    /\ op' = Op("insert", c.key, FALSE, c.cryptor, {}, FALSE, FALSE, 0, "")
    /\ UNCHANGED <<options, enabled, cryptors, n_calls>>
    /\ UNCHANGED <<state_changed, last_observer, global_flag>>
    /\ overtaken' = overtaken \ {c.id}
    /\ UNCHANGED streamVars

\* The acquisition calls for the key that are past the checks of lines
\* 83-89 / 109-115 and have not yet inserted their FrameCryptor.
PastChecks(key) ==
    {c \in calls : c.key = key /\ c.at \in {"create", "insert"}}

\* remove_frame_cryptor(identity, sid): the entry is removed.
RemoveFrameCryptor(key) ==
    /\ frame_cryptors' = [frame_cryptors EXCEPT ![key] = 0]
    /\ op' = Op("remove_frame_cryptor", key, FALSE, frame_cryptors[key],
                {}, FALSE, FALSE, 0, "")
    /\ UNCHANGED <<options, enabled, cryptors, calls, n_calls>>
    /\ UNCHANGED <<state_changed, last_observer, global_flag>>
    /\ overtaken' = overtaken \cup {c.id : c \in PastChecks(key)}
    /\ UNCHANGED streamVars

\* The room calls on_track_unsubscribed(_, publication, participant).
OnTrackUnsubscribed(key) == RemoveFrameCryptor(key)

\* The room calls on_local_track_unpublished(publication, participant).
OnLocalTrackUnpublished(key) == RemoveFrameCryptor(key)

\* FrameCryptors the map holds.
Bound == {frame_cryptors[k] : k \in CryptorKeys} \ {0}

\* cryptor.set_enabled(v) on every FrameCryptor of the set.
SetCryptorsEnabled(set, v) ==
    [i \in 1..Len(cryptors) |->
        IF i \in set THEN [cryptors[i] EXCEPT !.enabled = v]
        ELSE cryptors[i]]

\* set_enabled(v): nothing when inner.enabled is v; otherwise every
\* FrameCryptor of the map is set to v.  inner.enabled is not written.
SetEnabled(v) ==
    /\ cryptors' = IF enabled = v THEN cryptors
                   ELSE SetCryptorsEnabled(Bound, v)
    /\ global_flag' = v
    /\ op' = Op("set_enabled", NoKey, v, 0,
                IF enabled = v THEN {} ELSE Bound,
                op.name = "set_enabled" /\ op.v = v, v # global_flag, 0, "")
    /\ UNCHANGED <<options, enabled, frame_cryptors, calls, n_calls>>
    /\ UNCHANGED <<state_changed, last_observer, overtaken>>
    /\ UNCHANGED streamVars

\* Cleanup that clears the map and disables nothing.
Cleanup_ClearOnly ==
    /\ frame_cryptors' = [k \in CryptorKeys |-> 0]
    /\ op' = Op("cleanup", NoKey, FALSE, 0, {}, FALSE, FALSE, 0, "")
    /\ UNCHANGED <<options, enabled, cryptors, calls, n_calls>>
    /\ UNCHANGED <<state_changed, last_observer, global_flag>>
    /\ UNCHANGED overtaken
    /\ UNCHANGED streamVars

\* cleanup(): every FrameCryptor of the map is disabled, the map cleared.
Cleanup ==
    /\ cryptors' = SetCryptorsEnabled(Bound, FALSE)
    /\ frame_cryptors' = [k \in CryptorKeys |-> 0]
    /\ op' = Op("cleanup", NoKey, FALSE, 0, Bound, FALSE, FALSE, 0, "")
    /\ UNCHANGED <<options, enabled, calls, n_calls>>
    /\ UNCHANGED <<state_changed, last_observer, global_flag>>
    /\ overtaken' = overtaken \cup
                    {c.id : c \in UNION {PastChecks(k) : k \in CryptorKeys}}
    /\ UNCHANGED streamVars

\* on_state_changed that leaves a handler that is in the slot in place.
OnStateChanged_KeepFirst(o) ==
    /\ state_changed' = IF state_changed = 0 THEN o ELSE state_changed
    /\ last_observer' = o
    /\ op' = Op("on_state_changed", NoKey, FALSE, 0, {}, FALSE, FALSE, o, "")
    /\ UNCHANGED <<options, enabled, frame_cryptors, cryptors, calls,
                   n_calls, global_flag, overtaken>>
    /\ UNCHANGED streamVars

\* on_state_changed(handler): the slot is overwritten.
OnStateChanged(o) ==
    /\ state_changed' = o
    /\ last_observer' = o
    /\ op' = Op("on_state_changed", NoKey, FALSE, 0, {}, FALSE, FALSE, o, "")
    /\ UNCHANGED <<options, enabled, frame_cryptors, cryptors, calls,
                   n_calls, global_flag, overtaken>>
    /\ UNCHANGED streamVars

\* FrameCryptor i reports a state change to the closure setup_cryptor gave
\* it (lines 130-134): the closure locks the slot and calls the handler
\* that is in it, if any, with the identity the FrameCryptor was made for.
StateChange(i) ==
    /\ i \in 1..Len(cryptors)
    /\ op' = Op("state_change", cryptors[i].key, FALSE, i, {}, FALSE, FALSE,
                state_changed,
                IF state_changed # 0 THEN cryptors[i].key[1] ELSE "")
    /\ UNCHANGED <<options, enabled, frame_cryptors, cryptors, calls,
                   n_calls, state_changed, last_observer, global_flag,
                   overtaken>>
    /\ UNCHANGED streamVars

E2eeNext ==
    \/ \E k \in CryptorKeys, e \in EncryptionTypes :
          n_calls < MaxCalls /\ OnTrackSubscribed(k, e)
    \/ \E k \in CryptorKeys, e \in EncryptionTypes :
          n_calls < MaxCalls /\ OnLocalTrackPublished(k, e)
    \/ \E c \in calls : AcquireCheck(c)
    \/ \E c \in calls : AcquireCreate(c)
    \/ \E c \in calls : AcquireInsert(c)
    \/ \E k \in CryptorKeys : OnTrackUnsubscribed(k)
    \/ \E k \in CryptorKeys : OnLocalTrackUnpublished(k)
    \/ \E v \in BOOLEAN : SetEnabled(v)
    \/ Cleanup
    \/ \E o \in Observers : OnStateChanged(o)

\* The manager with a room that registers handlers, and FrameCryptors that
\* report state changes, while tracks are acquired and released.
E2eeObserverNext ==
    \/ \E k \in CryptorKeys, e \in EncryptionTypes :
          n_calls < MaxCalls /\ OnTrackSubscribed(k, e)
    \/ \E k \in CryptorKeys, e \in EncryptionTypes :
          n_calls < MaxCalls /\ OnLocalTrackPublished(k, e)
    \/ \E c \in calls : AcquireCheck(c)
    \/ \E c \in calls : AcquireCreate(c)
    \/ \E c \in calls : AcquireInsert(c)
    \/ \E k \in CryptorKeys : OnTrackUnsubscribed(k)
    \/ \E k \in CryptorKeys : OnLocalTrackUnpublished(k)
    \/ \E o \in Observers : OnStateChanged(o)
    \/ \E i \in 1..MaxCalls : StateChange(i)

E2eeObserverSpec == E2eeInit /\ [][E2eeObserverNext]_vars

E2eeSpec == E2eeInit /\ [][E2eeNext]_vars

\* ------------------------------------------------------ specifications

\* The steps of the producer task of stream h.
TaskStep(h) ==
    \/ TaskFrame(h)
    \/ \E ok \in BOOLEAN : TaskSendFrame(h, ok)
    \/ TaskClose(h)
    \/ TaskExhausted(h)
    \/ \E ok \in BOOLEAN : TaskSendEos(h, ok)

\* Everything but the setup calls.
StreamRun ==
    \/ \E c \in setup_calls : SetupStore(c)
    \/ \E c \in setup_calls : SetupFail(c)
    \/ \E h \in Handles : SourceEmit(h)
    \/ \E h \in Handles : SourceEnd(h)
    \/ \E h \in Handles : TaskFrame(h)
    \/ \E h \in Handles, ok \in BOOLEAN : TaskSendFrame(h, ok)
    \/ \E h \in Handles : TaskClose(h)
    \/ \E h \in Handles : TaskExhausted(h)
    \/ \E h \in Handles, ok \in BOOLEAN : TaskSendEos(h, ok)
    \/ \E h \in Handles : Release(h)

\* The bridge with a caller that makes up to MaxSetups setup calls, from
\* any threads: calls and the tasks they start run concurrently.
StreamNext ==
    \/ \E t \in RequestHandles, ty \in VideoStreamTypes :
          n_setups < MaxSetups /\ SetupCall(t, ty)
    \/ StreamRun

StreamSpec == StreamInit /\ [][StreamNext]_vars

\* The bridge with a caller that makes up to MaxStreams setup calls.
SingleStreamNext ==
    \/ \E t \in RequestHandles, ty \in VideoStreamTypes :
          n_setups < MaxStreams /\ SetupCall(t, ty)
    \/ StreamRun

SingleStreamSpec == StreamInit /\ [][SingleStreamNext]_vars

\* The runtime runs every task that can take a step (weak fairness of the
\* task's steps).  select! without "biased" starts its poll at a branch
\* drawn at random, so a close branch that is ready at infinitely many
\* selects is taken at one of them (strong fairness of TaskClose).
TaskFairness ==
    \A h \in Handles : WF_vars(TaskStep(h)) /\ SF_vars(TaskClose(h))

SingleStreamFairSpec == SingleStreamSpec /\ TaskFairness

\* ---------------------------------------------- properties of the bridge

Started(h) == pc[h] # "none"

EosIndexes(h) == {k \in 1..Len(events[h]) : events[h][k].kind = "eos"}

FrameIndexes(h) == {k \in 1..Len(events[h]) : events[h][k].kind = "frame"}

EndsWithEos(h) ==
    /\ events[h] # <<>>
    /\ events[h][Len(events[h])].kind = "eos"

\* C1: for every stream whose task was started, the events submitted for
\* its handle hold at most one Eos, and nothing, frame or Eos, is submitted
\* after it: an Eos is always the last event submitted so far.
C1_EosOnceAndLast ==
    \A h \in Handles :
        Started(h) =>
            /\ Cardinality(EosIndexes(h)) <= 1
            /\ \A k \in EosIndexes(h) : k = Len(events[h])

\* A stream that was released while running, lost a send, and ended: its
\* events are frames followed by the Eos.
C1_Witness ==
    \E h \in Handles :
        /\ pc[h] = "done"
        /\ ffi_handles[h] = "absent"
        /\ Len(events[h]) >= 2
        /\ EndsWithEos(h)
        /\ \E k \in FrameIndexes(h) : ~events[h][k].ok

C3_EarlyCancelOnlyEos ==
    [][\A h \in Handles :
          (pc[h] = "select" /\ CloseReady(h) /\ FrameIndexes(h) = {})
              => pc'[h] # "send"]_vars

\* C4: the frame events of a stream are submitted in the order in which
\* the source emitted the frames, and the task has at most one send in
\* flight.
C4_EmissionOrder ==
    \A h \in Handles :
        /\ sending[h] <= 1
        /\ \A i, j \in FrameIndexes(h) :
              i < j => events[h][i].seq < events[h][j].seq
        /\ pc[h] = "send" =>
              \A i \in FrameIndexes(h) : events[h][i].seq < frame[h].seq

\* A stream for which two frame events were submitted.
C4_Witness ==
    \E h \in Handles : Cardinality(FrameIndexes(h)) >= 2

\* C5: a failed send never ends the task early: when the send of a frame
\* event returns, Ok or Err, the task is back at its select; when the loop
\* is left the Eos send follows; and when the Eos send returns, Ok or Err,
\* the task has ended with the Eos as the last event submitted.
C5_SendFailureNotFatal ==
    [][\A h \in Handles :
          /\ (pc[h] = "send" /\ pc'[h] # "send") => pc'[h] = "select"
          /\ (pc[h] = "select" /\ pc'[h] \notin {"select", "send"})
                => pc'[h] = "eos"
          /\ (pc[h] = "eos" /\ pc'[h] # "eos") => pc'[h] = "done"
          /\ (pc[h] # "done" /\ pc'[h] = "done") =>
                /\ Len(events'[h]) = Len(events[h]) + 1
                /\ events'[h][Len(events'[h])].kind = "eos"]_vars

\* A stream whose last frame send failed and whose Eos send failed too, and
\* which ended all the same.
C5_Witness ==
    \E h \in Handles :
        /\ pc[h] = "done"
        /\ Len(events[h]) >= 2
        /\ events[h][Len(events[h])] = EosEvent(FALSE)
        /\ events[h][Len(events[h]) - 1].kind = "frame"
        /\ ~events[h][Len(events[h]) - 1].ok

\* What a setup call returns for what it found under track_handle and the
\* stream type it was given, as the claim states it.
ExpectedError(c) ==
    IF c.found = "absent" THEN "InvalidHandle"
    ELSE IF c.found \notin {"video_track", "audio_track"} THEN "TypeMismatch"
    ELSE IF c.found # "video_track" THEN "InvalidRequest"
    ELSE IF c.type # "VideoStreamNative" THEN "InvalidRequest"
    ELSE "Pending"

\* C6: a setup call with a track handle that holds no track returns the
\* retrieval error, one with a track that is no video track or with an
\* unsupported stream type returns InvalidRequest; the failing call changes
\* neither the registry nor any task nor any event, and the id it may have
\* drawn is never stored, never gets a task and never gets an event.
C6_InvalidSetup ==
    [][/\ \A c \in setup_calls' \ setup_calls :
              /\ c.result = ExpectedError(c)
              /\ c.result # "Pending" =>
                    /\ ffi_handles' = ffi_handles
                    /\ ever_stored' = ever_stored
                    /\ pc' = pc
                    /\ events' = events
                    /\ c.handle_id # 0 => c.handle_id \in rejected'
       /\ \A c \in setup_calls \ setup_calls' :
              c.result # "Pending" =>
                    /\ ffi_handles' = ffi_handles
                    /\ pc' = pc
                    /\ events' = events
       /\ \A h \in rejected' :
              /\ h \notin ever_stored'
              /\ ffi_handles'[h] = "absent"
              /\ pc'[h] = "none"
              /\ events'[h] = <<>>]_vars

\* A call that drew an id and then failed on the stream type has returned,
\* while another stream runs and has submitted events.
C6_Witness ==
    /\ rejected # {}
    /\ setup_calls = {}
    /\ \E h \in Handles : pc[h] = "done" /\ Len(events[h]) >= 2

\* C7: releasing the handle of a stream whose task has ended changes
\* nothing but the registry, and no event follows it: the stream's events
\* and its task stay as they were at the release and ever after.
C7_LateReleaseSilent ==
    [][\A h \in Handles :
          /\ (pc[h] = "done" /\ ffi_handles[h] = "stream"
                /\ ffi_handles'[h] = "absent")
                => (events' = events /\ pc' = pc /\ sending' = sending)
          /\ h \in late_release
                => (events'[h] = events[h] /\ pc'[h] = "done"
                    /\ sending'[h] = 0)]_vars

\* A stream ended by the exhaustion of its source, Eos submitted, whose
\* handle was released afterwards.
C7_Witness ==
    \E h \in late_release :
        /\ pc[h] = "done"
        /\ EndsWithEos(h)
        /\ ffi_handles[h] = "absent"

\* C8: the ids next_id returned are pairwise distinct, and store_handle was
\* never called with a handle that is or ever was in the registry; every
\* handle stored is an id next_id returned.
C8_HandlesDistinct ==
    /\ \A i, j \in 1..Len(issued) : i # j => issued[i] # issued[j]
    /\ ~dup_store
    /\ \A h \in ever_stored : \E i \in 1..Len(issued) : issued[i] = h
    /\ \A h \in Handles : ffi_handles[h] # "absent" => h \in ever_stored

\* Two streams were set up and each task stored a frame buffer under an id
\* of its own, after one stream's handle had been released.
C8_Witness ==
    \E h1, h2 \in Handles :
        /\ h1 # h2
        /\ FrameIndexes(h1) # {}
        /\ FrameIndexes(h2) # {}
        /\ ffi_handles[h1] = "absent"
        /\ h1 \in ever_stored

\* --------------------------------------------- properties of the manager

BoundKeys == {k \in CryptorKeys : frame_cryptors[k] # 0}

\* C9: an acquisition notification on a manager without options, or for a
\* publication whose encryption type is None, returns without creating a
\* FrameCryptor and without touching the map; and a manager built without
\* options has enabled() false, no FrameCryptor and no binding, before and
\* after every step.
C9_AcquireNoop ==
    [][/\ \A c \in calls :
              (c.at = "start" /\ c \notin calls'
                  /\ (~Initialized \/ c.enc = "None"))
              => /\ cryptors' = cryptors
                 /\ frame_cryptors' = frame_cryptors
                 /\ \A d \in calls' : d.id # c.id
       /\ ~options =>
              /\ ~E2eeEnabled /\ ~E2eeEnabled'
              /\ cryptors' = <<>>
              /\ BoundKeys' = {}]_vars

\* On a manager with options, an acquisition for an unencrypted publication
\* has returned: no FrameCryptor exists.
C9_Witness ==
    /\ options
    /\ n_calls >= 1
    /\ calls = {}
    /\ cryptors = <<>>

\* A FrameCryptor counts as live until it has been disabled and removed:
\* it is no longer live once it is disabled, out of the map and out of the
\* hands of the call that created it.
Removed(i) == i \notin Bound /\ \A c \in calls : c.cryptor # i

LiveCryptors ==
    {i \in 1..Len(cryptors) : ~(Removed(i) /\ ~cryptors[i].enabled)}

\* C10: acquisition notifications leave each key with one binding, which
\* holds a FrameCryptor made for that key, and the number of live
\* FrameCryptors equals the number of keys in the map.  Stated for the
\* states in which no acquisition call is in progress, the states the
\* claim's two calls end in; the claim asks as much of every state.
C10_LiveEqualsKeys ==
    calls = {} =>
        /\ \A k \in BoundKeys : cryptors[frame_cryptors[k]].key = k
        /\ Cardinality(LiveCryptors) = Cardinality(BoundKeys)

\* C11: a release notification for a bound key disables the FrameCryptor
\* of the binding and removes the binding, so that the keys of the map are
\* those of before without the key; for a key with no binding it changes
\* neither the map nor any FrameCryptor.
C11_ReleaseDisablesAndRemoves ==
    [][op'.name = "remove_frame_cryptor" =>
          LET k == op'.key
              i == frame_cryptors[k]
          IN  /\ frame_cryptors' = [frame_cryptors EXCEPT ![k] = 0]
              /\ BoundKeys' = BoundKeys \ {k}
              /\ i # 0 => ~cryptors'[i].enabled
              /\ i = 0 => /\ cryptors' = cryptors
                          /\ frame_cryptors' = frame_cryptors]_vars

\* C12: when set_enabled(v) returns, having been given a flag other than
\* the one in effect, every FrameCryptor of the map has enabled state v.
C12_SetEnabledApplies ==
    (op.name = "set_enabled" /\ op.changed) =>
        \A i \in Bound : cryptors[i].enabled = op.v

\* C13: a set_enabled(v) call that directly follows a set_enabled(v) call
\* with the same v calls set_enabled on no FrameCryptor.
C13_SetEnabledIdempotent ==
    (op.name = "set_enabled" /\ op.repeat) => op.touched = {}

\* C14: enabled() is true exactly when the manager has options and the
\* global flag is true, the global flag being options.is_some() at first
\* and then the value the last set_enabled call was given.
C14_EnabledIsGlobalFlag ==
    E2eeEnabled <=> (options /\ global_flag)

\* C15: when cleanup() returns, every FrameCryptor that was in the map is
\* disabled and the map is empty; the options and the registered handler
\* are as they were.
C15_CleanupDisablesAndClears ==
    [][op'.name = "cleanup" =>
          /\ \A i \in Bound : ~cryptors'[i].enabled
          /\ BoundKeys' = {}
          /\ options' = options
          /\ state_changed' = state_changed
          /\ last_observer' = last_observer]_vars

\* cleanup() has just returned on a manager with a registered handler: it
\* disabled at least one FrameCryptor, and the map is empty.
C15_Witness ==
    /\ op.name = "cleanup"
    /\ op.touched # {}
    /\ \A i \in op.touched : ~cryptors[i].enabled
    /\ state_changed # 0
    /\ BoundKeys = {}

\* C16: a state change a FrameCryptor reports is passed to the handler the
\* last on_state_changed call registered, and to no other, with the
\* identity the FrameCryptor was made for; it is dropped when no handler
\* was registered.
C16_ObserverSlot ==
    op.name = "state_change" =>
        /\ op.to = last_observer
        /\ op.to = state_changed
        /\ op.to # 0 => op.identity = cryptors[op.cryptor].key[1]
        /\ op.to = 0 => op.identity = ""

\* The FrameCryptor of a binding reported a state change, which went to
\* handler 2 with the identity of the binding's key.
C16_Witness ==
    /\ op.name = "state_change"
    /\ op.to = 2
    /\ op.cryptor \in Bound
    /\ frame_cryptors[op.key] = op.cryptor
    /\ op.identity = op.key[1]

\* C19: a FrameCryptor an acquisition creates starts with the enabled
\* state of the global flag, the value the last set_enabled call was given
\* (options.is_some() when there was none).
C19_StartsWithGlobalFlag ==
    op.name = "create" => cryptors[op.cryptor].enabled = global_flag

\* ------------------------------------- further properties of the bridge

\* C17: the close branch has priority: at a select at which the stream's
\* handle was released already, the task never takes the frame branch, so
\* it pulls no frame and sends no frame event from then on.
C17_ClosePriority ==
    [][\A h \in Handles :
          (pc[h] = "select" /\ CloseReady(h))
              => (pc'[h] # "send" /\ frame'[h] = frame[h]
                    /\ Len(queue'[h]) >= Len(queue[h]))]_vars

\* C18: whenever the task of a stream has submitted an event, or is
\* submitting one, setup has stored the stream under its handle.
C18_StoredBeforeEvents ==
    \A h \in Handles :
        (pc[h] \in {"send", "eos"} \/ events[h] # <<>>)
            => h \in ever_stored

\* C20: the buffer of a frame is stored while its event is submitted, and a
\* buffer that is in the registry once the task is done with the frame is
\* one whose frame event was sent successfully.
C20_NoUnreachableBuffer ==
    \A h \in Handles :
        /\ pc[h] = "send" => ffi_handles[frame[h].handle_id] = "buffer"
        /\ \A k \in FrameIndexes(h) :
              ffi_handles[events[h][k].handle_id] = "buffer"
                  => events[h][k].ok

\* ------------------------------------ further properties of the manager

\* C21: an acquisition is atomic with respect to cleanup and release: a call
\* that had passed its checks when cleanup(), or the release of its key, ran
\* does not insert a binding afterwards, so that the map cleanup() emptied
\* stays empty until a call that started after it inserts.
C21_AcquireAtomic ==
    [][\A c \in calls :
          (c.at = "insert" /\ c \notin calls')
              => c.id \notin overtaken]_vars

=============================================================================
